---- MODULE Spec2Model ----
(***************************************************************************)
(* Model of run_clang_format.py: a wrapper that checks the version of the  *)
(* clang-format binary, collects .c/.h files below the given paths and     *)
(* runs clang-format once over them.                                       *)
(*                                                                         *)
(* Text is modelled as a sequence of one-character strings, so that the    *)
(* regular expression, int(), " ".join() and str.split() are computed the  *)
(* way Python computes them.  A Path is the sequence of its components.    *)
(***************************************************************************)
EXTENDS Integers, Sequences, FiniteSets, TLC

VARIABLES
    CLANG_FORMAT_VER_REQ, \* module global, line 26
    tool_stdout,          \* environment: what `clang-format --version` prints
    fs,                   \* environment: the file tree below the working directory
    args_path,            \* args.path, the positional arguments (nargs='+')
    pc,                   \* position of main()
    clang_format_ver,     \* stdout of the completed version query ("None" before)
    search,               \* result of CLANG_FORMAT_VER_REGEX.search
    version,              \* Version parsed from the output
    arg_idx,              \* position of the for loop of line 74
    globbed_files,        \* List[Path]
    clang_format_cmd,     \* the command line string of line 88
    calls,                \* the subprocess.run calls so far: arguments and outcome
    printed,              \* lines printed, in order
    returned,             \* main() has returned
    retval,               \* the value returned (meaningful when returned)
    raised,               \* exception that left main() uncaught ("" if none)
    lhs, rhs, lt          \* operands and result of Version.__lt__ (ordering check)

vars == <<CLANG_FORMAT_VER_REQ, tool_stdout, fs, args_path, pc, clang_format_ver,
          search, version, arg_idx, globbed_files, clang_format_cmd, calls,
          printed, returned, retval, raised, lhs, rhs, lt>>

----------------------------------------------------------------------------
(* Bounds of the model *)

MaxArgs == 2        \* longest list of path arguments
MaxEntries == 4     \* most entries in the file tree
MaxMajor == 14      \* largest major version the tool reports
MaxComp == 3        \* largest component in the ordering check

----------------------------------------------------------------------------
(* Text *)

Digits == {"0", "1", "2", "3", "4", "5", "6", "7", "8", "9"}

Whitespace == {" ", "\n", "\t"}

\* Characters of the model in code point order.
Ascii == <<"\t", "\n", " ", "-", ".", "/",
           "0", "1", "2", "3", "4", "5", "6", "7", "8", "9",
           "U", "a", "b", "c", "d", "e", "f", "g", "h", "i", "l", "m", "n",
           "o", "p", "r", "s", "t", "u", "v", "w", "x">>

Code(c) == CHOOSE n \in 1..Len(Ascii) : Ascii[n] = c

\* str < str
StrLT(a, b) ==
    \E n \in 1..(Len(b)) :
        /\ \A m \in 1..(n-1) : m <= Len(a) /\ a[m] = b[m]
        /\ \/ n = Len(a) + 1
           \/ n <= Len(a) /\ Code(a[n]) < Code(b[n])

\* sep.join(ss)
RECURSIVE Join(_, _)
Join(sep, ss) ==
    IF ss = <<>> THEN <<>>
    ELSE IF Len(ss) = 1 THEN ss[1]
    ELSE ss[1] \o sep \o Join(sep, Tail(ss))

\* s.split(): cut at runs of whitespace, no empty strings
RECURSIVE SplitWs(_, _)
SplitWs(s, cur) ==
    IF s = <<>> THEN (IF cur = <<>> THEN <<>> ELSE <<cur>>)
    ELSE IF Head(s) \in Whitespace
         THEN (IF cur = <<>> THEN <<>> ELSE <<cur>>) \o SplitWs(Tail(s), <<>>)
         ELSE SplitWs(Tail(s), Append(cur, Head(s)))

Split(s) == SplitWs(s, <<>>)

\* s.endswith(suffix)
EndsWith(s, suffix) ==
    /\ Len(s) >= Len(suffix)
    /\ SubSeq(s, Len(s) - Len(suffix) + 1, Len(s)) = suffix

\* int(s) of a string of decimal digits
DigitValue(c) == Code(c) - Code("0")

RECURSIVE ParseInt(_)
ParseInt(s) ==
    IF s = <<>> THEN 0
    ELSE 10 * ParseInt(SubSeq(s, 1, Len(s) - 1)) + DigitValue(s[Len(s)])

\* str(n) of a natural number
RECURSIVE IntToStr(_)
IntToStr(n) ==
    IF n < 10 THEN <<Ascii[Code("0") + n]>>
    ELSE Append(IntToStr(n \div 10), Ascii[Code("0") + (n % 10)])

----------------------------------------------------------------------------
(* Version, lines 16-26 *)

Version(a, b, c) == [major |-> a, minor |-> b, patch |-> c]

\* The tuple the generated comparison methods of the dataclass compare
VersionFields(v) == <<v.major, v.minor, v.patch>>

\* Variant: only the first fields are compared
TupleLTMajorOnly(s, t) == s[1] < t[1]

\* tuple < tuple: decided by the first position where the tuples differ
TupleLT(s, t) ==
    LET diff == {n \in 1..Len(s) : s[n] # t[n]}
    IN  /\ diff # {}
        /\ LET first == CHOOSE n \in diff : \A m \in diff : n <= m
           IN  s[first] < t[first]

\* Variant: the fields are compared in the order patch, minor, major
VersionLTPatchFirst(v, w) == TupleLT(<<v.patch, v.minor, v.major>>,
                                     <<w.patch, w.minor, w.major>>)

\* Version.__lt__ (dataclass(order=True))
VersionLT(v, w) == TupleLT(VersionFields(v), VersionFields(w))

----------------------------------------------------------------------------
(* CLANG_FORMAT_VER_REGEX, lines 28-30 *)

Phrase == <<"c", "l", "a", "n", "g", "-", "f", "o", "r", "m", "a", "t", " ",
            "v", "e", "r", "s", "i", "o", "n", " ">>

PhraseAt(text, s) ==
    /\ s + Len(Phrase) - 1 <= Len(text)
    /\ \A n \in 1..Len(Phrase) : text[s + n - 1] = Phrase[n]

\* \d+ matches text[a..b]
DigitRun(text, a, b) ==
    /\ a <= b
    /\ b <= Len(text)
    /\ \A n \in a..b : text[n] \in Digits

\* "." of the pattern: any character but a newline
AnyChar(text, n) == n <= Len(text) /\ text[n] # "\n"

\* The ends <<i, j, k>> of the three groups of every way the pattern matches
\* with the phrase starting at s.
GroupEnds(text, s) ==
    LET p == s + Len(Phrase)
        R == p..Len(text)
    IN  IF ~PhraseAt(text, s) THEN {}
        ELSE {g \in R \X R \X R :
                /\ DigitRun(text, p, g[1])
                /\ AnyChar(text, g[1] + 1)
                /\ DigitRun(text, g[1] + 2, g[2])
                /\ AnyChar(text, g[2] + 1)
                /\ DigitRun(text, g[2] + 2, g[3])}

\* Greedy quantifiers with backtracking: the longest major, then the longest
\* minor, then the longest patch.
Greedy(G) ==
    CHOOSE g \in G : \A h \in G :
        \/ g[1] > h[1]
        \/ g[1] = h[1] /\ g[2] > h[2]
        \/ g[1] = h[1] /\ g[2] = h[2] /\ g[3] >= h[3]

NoMatch == [found |-> FALSE, major |-> <<>>, minor |-> <<>>, patch |-> <<>>]

\* CLANG_FORMAT_VER_REGEX.search(text): the leftmost match
RegexSearch(text) ==
    LET starts == {s \in 1..Len(text) : GroupEnds(text, s) # {}}
    IN  IF starts = {} THEN NoMatch
        ELSE LET s == CHOOSE x \in starts : \A y \in starts : x <= y
                 p == s + Len(Phrase)
                 g == Greedy(GroupEnds(text, s))
             IN  [found |-> TRUE,
                  major |-> SubSeq(text, p, g[1]),
                  minor |-> SubSeq(text, g[1] + 2, g[2]),
                  patch |-> SubSeq(text, g[2] + 2, g[3])]

----------------------------------------------------------------------------
(* pathlib.Path, over a tree of entries below the working directory *)

RECURSIVE SplitOn(_, _, _)
SplitOn(s, sep, cur) ==
    IF s = <<>> THEN <<cur>>
    ELSE IF Head(s) = sep THEN <<cur>> \o SplitOn(Tail(s), sep, <<>>)
    ELSE SplitOn(Tail(s), sep, Append(cur, Head(s)))

IsComponent(name) == name # <<>> /\ name # <<".">>

\* Path(input_str) of a relative path: its components, "" and "." dropped
PathOf(input_str) == SelectSeq(SplitOn(input_str, "/", <<>>), IsComponent)

\* str(path)
PathStr(path) == IF path = <<>> THEN <<".">> ELSE Join(<<"/">>, path)

\* The working directory, /w
Cwd == << <<"w">> >>

\* path.resolve() of a relative path (the model has no symlinks and no "..")
Resolve(path) == Cwd \o path

\* str() of an absolute path
AbsStr(abs) == <<"/">> \o Join(<<"/">>, abs)

\* Kind of the entry a path names: "file", "dir", "other" (a fifo, a socket,
\* a device) or "none"
KindOf(tree, path) ==
    IF path = <<>> THEN "dir"
    ELSE IF path \in DOMAIN tree THEN tree[path] ELSE "none"

Exists(tree, path) == KindOf(tree, path) # "none"

IsDir(tree, path) == KindOf(tree, path) = "dir"

IsFile(tree, path) == KindOf(tree, path) = "file"

\* Path < Path: component by component
PathLT(p, q) ==
    \E n \in 1..Len(q) :
        /\ \A m \in 1..(n-1) : m <= Len(p) /\ p[m] = q[m]
        /\ \/ n = Len(p) + 1
           \/ n <= Len(p) /\ StrLT(p[n], q[n])

\* sorted() of a set of distinct paths
RECURSIVE Sorted(_)
Sorted(S) ==
    IF S = {} THEN <<>>
    ELSE LET least == CHOOSE x \in S : \A y \in S \ {x} : PathLT(x, y)
         IN  <<least>> \o Sorted(S \ {least})

\* path.glob("**/*" + suffix): every entry, of any kind, at any depth below
\* path whose name ends with the suffix
Glob(tree, path, suffix) ==
    {q \in DOMAIN tree :
        /\ Len(q) > Len(path)
        /\ SubSeq(q, 1, Len(path)) = path
        /\ EndsWith(q[Len(q)], suffix)}

----------------------------------------------------------------------------
(* main(), lines 32-105 *)

ClangFormat == <<"c", "l", "a", "n", "g", "-", "f", "o", "r", "m", "a", "t">>

FlagVersion == <<"-", "-", "v", "e", "r", "s", "i", "o", "n">>

FlagInPlace == <<"-", "i">>

FlagVerbose == <<"-", "-", "v", "e", "r", "b", "o", "s", "e">>

NoVersion == Version(-1, -1, -1)

\* One subprocess.run call: "oserror" (the process could not be started),
\* "nonzero" or "ok" (exit status zero)
Call(argv, outcome) == [argv |-> argv, outcome |-> outcome]

Line(msg, text) == [msg |-> msg, text |-> text]

Say(msgs) == printed' = printed \o msgs

Return(n) == returned' = TRUE /\ retval' = n /\ pc' = "done" /\ UNCHANGED raised

Raise(exc) == raised' = exc /\ pc' = "crashed" /\ UNCHANGED <<returned, retval>>

Goto(label) == pc' = label /\ UNCHANGED <<returned, retval, raised>>

\* Lines 43-50: subprocess.run(["clang-format", "--version"], check=True).
\* The binary is missing (FileNotFoundError, not caught by line 48), exits
\* non-zero (CalledProcessError) or exits zero.
RunVersionQuery ==
    /\ pc = "start"
    /\ \E outcome \in {"oserror", "nonzero", "ok"} :
          /\ calls' = Append(calls, Call(<<ClangFormat, FlagVersion>>, outcome))
          /\ CASE outcome = "oserror" ->
                     /\ Raise("FileNotFoundError")
                     /\ UNCHANGED <<clang_format_ver, printed>>
               [] outcome = "nonzero" ->
                     /\ Say(<<Line("CalledProcessError", <<>>)>>)
                     /\ Return(-1)
                     /\ UNCHANGED clang_format_ver
               [] outcome = "ok" ->
                     /\ clang_format_ver' = tool_stdout
                     /\ Goto("queried")
                     /\ UNCHANGED printed
    /\ UNCHANGED <<CLANG_FORMAT_VER_REQ, tool_stdout, fs, args_path, search, version,
                   arg_idx, globbed_files, clang_format_cmd, lhs, rhs, lt>>

\* Lines 52-57.  A failed search ends the run: AssertionError at line 53, or
\* with assertions compiled out (python -O) AttributeError at line 55.
ParseVersion ==
    /\ pc = "queried"
    /\ search' = RegexSearch(clang_format_ver)
    /\ IF search'.found
       THEN /\ version' = Version(ParseInt(search'.major),
                                  ParseInt(search'.minor),
                                  ParseInt(search'.patch))
            /\ Goto("parsed")
       ELSE /\ \E exc \in {"AssertionError", "AttributeError"} : Raise(exc)
            /\ UNCHANGED version
    /\ UNCHANGED <<CLANG_FORMAT_VER_REQ, tool_stdout, fs, args_path, clang_format_ver,
                   arg_idx, globbed_files, clang_format_cmd, calls, printed,
                   lhs, rhs, lt>>

\* Line 58
TooOld(v, req) == VersionLT(v, req)

\* Variant: the required major version is warned about too
NewerThanTestedOrEqual(v, req) == v.major >= req.major

\* Line 65
NewerThanTested(v, req) == v.major > req.major

\* Variant: a version that is too old is reported, but the run goes on
CheckVersionKeepsGoing ==
    /\ pc = "parsed"
    /\ Say(IF TooOld(version, CLANG_FORMAT_VER_REQ)
           THEN <<Line("ERROR too old", <<>>)>> ELSE <<>>)
    /\ Goto("discover")
    /\ globbed_files' = <<>>
    /\ arg_idx' = 1
    /\ UNCHANGED <<CLANG_FORMAT_VER_REQ, tool_stdout, fs, args_path, clang_format_ver,
                   search, version, clang_format_cmd, calls, lhs, rhs, lt>>

\* Lines 58-73
CheckVersion ==
    /\ pc = "parsed"
    /\ IF TooOld(version, CLANG_FORMAT_VER_REQ)
       THEN /\ Say(<<Line("ERROR too old", <<>>), Line("Requires", <<>>)>>)
            /\ Return(-1)
            /\ UNCHANGED <<globbed_files, arg_idx>>
       ELSE /\ Say(<<Line("Using", <<>>)>>
                   \o (IF NewerThanTested(version, CLANG_FORMAT_VER_REQ)
                       THEN <<Line("NOTE", <<>>)>> ELSE <<>>))
            /\ Goto("discover")
            /\ globbed_files' = <<>>
            /\ arg_idx' = 1
    /\ UNCHANGED <<CLANG_FORMAT_VER_REQ, tool_stdout, fs, args_path, clang_format_ver,
                   search, version, clang_format_cmd, calls, lhs, rhs, lt>>

\* Line 76
Ignored(tree, path) ==
    ~Exists(tree, path) \/ ~(IsDir(tree, path) \/ IsFile(tree, path))

\* Variant: a file argument is kept only if it ends in .c or .h
ContributionFiltered(tree, path) ==
    IF IsDir(tree, path)
    THEN Sorted(Glob(tree, path, <<".", "c">>)) \o Sorted(Glob(tree, path, <<".", "h">>))
    ELSE IF EndsWith(path[Len(path)], <<".", "c">>) \/ EndsWith(path[Len(path)], <<".", "h">>)
         THEN <<path>> ELSE <<>>

\* Lines 80-85: what one accepted argument adds to globbed_files
Contribution(tree, path) ==
    IF IsDir(tree, path)
    THEN Sorted(Glob(tree, path, <<".", "c">>)) \o Sorted(Glob(tree, path, <<".", "h">>))
    ELSE <<path>>

\* Lines 74-85, one iteration of the loop
DiscoverArg ==
    /\ pc = "discover"
    /\ arg_idx <= Len(args_path)
    /\ LET path == PathOf(args_path[arg_idx])
       IN  IF Ignored(fs, path)
           THEN /\ Say(<<Line("WARN", PathStr(path))>>)
                /\ UNCHANGED globbed_files
           ELSE /\ globbed_files' = globbed_files \o Contribution(fs, path)
                /\ UNCHANGED printed
    /\ arg_idx' = arg_idx + 1
    /\ Goto("discover")
    /\ UNCHANGED <<CLANG_FORMAT_VER_REQ, tool_stdout, fs, args_path, clang_format_ver,
                   search, version, clang_format_cmd, calls, lhs, rhs, lt>>

\* Line 87
ResolvedStrs(files) == [n \in 1..Len(files) |-> AbsStr(Resolve(files[n]))]

\* Lines 87-88
CommandLine(files) ==
    ClangFormat \o <<" ">> \o FlagInPlace \o <<" ">> \o FlagVerbose \o <<" ">>
    \o Join(<<" ">>, ResolvedStrs(files))

\* Lines 87-88, after the loop has run out of arguments
BuildCommand ==
    /\ pc = "discover"
    /\ arg_idx > Len(args_path)
    /\ clang_format_cmd' = CommandLine(globbed_files)
    /\ Goto("built")
    /\ UNCHANGED <<CLANG_FORMAT_VER_REQ, tool_stdout, fs, args_path, clang_format_ver,
                   search, version, arg_idx, globbed_files, calls, printed,
                   lhs, rhs, lt>>

\* Lines 91-105: subprocess.run(clang_format_cmd.split(), check=True).  The
\* process cannot be started (OSError, not caught by line 96), exits non-zero
\* or exits zero with or without text on stdout and on stderr.
RunFormat ==
    /\ pc = "built"
    /\ \E outcome \in {"oserror", "nonzero", "ok"} :
          /\ calls' = Append(calls, Call(Split(clang_format_cmd), outcome))
          /\ CASE outcome = "oserror" ->
                     /\ Raise("OSError")
                     /\ UNCHANGED printed
               [] outcome = "nonzero" ->
                     /\ Say(<<Line("stderr", <<>>)>>)
                     /\ Return(-1)
               [] outcome = "ok" ->
                     /\ \E out \in BOOLEAN, err \in BOOLEAN :
                           Say((IF out THEN <<Line("stdout", <<>>)>> ELSE <<>>)
                               \o (IF err THEN <<Line("stderr", <<>>)>> ELSE <<>>))
                     /\ Return(0)
    /\ UNCHANGED <<CLANG_FORMAT_VER_REQ, tool_stdout, fs, args_path, clang_format_ver,
                   search, version, arg_idx, globbed_files, clang_format_cmd,
                   lhs, rhs, lt>>

----------------------------------------------------------------------------
(* Ordering check: Version.__lt__ applied to two arbitrary versions *)

CompareVersions ==
    /\ pc = "compare"
    /\ lt' = VersionLT(lhs, rhs)
    /\ pc' = "compared"
    /\ UNCHANGED <<CLANG_FORMAT_VER_REQ, tool_stdout, fs, args_path, clang_format_ver,
                   search, version, arg_idx, globbed_files, clang_format_cmd, calls,
                   printed, returned, retval, raised, lhs, rhs>>

----------------------------------------------------------------------------
(* Inputs *)

Name_d == <<"d">>
Name_s == <<"s">>
Name_a_c == <<"a", ".", "c">>
Name_b_h == <<"b", ".", "h">>
Name_c_txt == <<"c", ".", "t", "x", "t">>
Name_e_f_c == <<"e", " ", "f", ".", "c">>
Name_g_c == <<"g", ".", "c">>
Name_w_txt == <<"w", "e", "i", "r", "d", ".", "t", "x", "t">>

\* The entries a tree may hold, each with the kinds it may have
CandidateKinds ==
    [p \in {<<Name_d>>, <<Name_d, Name_a_c>>, <<Name_d, Name_b_h>>,
            <<Name_d, Name_c_txt>>, <<Name_d, Name_s>>, <<Name_d, Name_s, Name_a_c>>,
            <<Name_d, Name_e_f_c>>, <<Name_d, Name_g_c>>, <<Name_w_txt>>} |->
        CASE p \in {<<Name_d>>, <<Name_d, Name_s>>, <<Name_d, Name_g_c>>} -> {"dir"}
          [] p = <<Name_w_txt>> -> {"file", "other"}
          [] OTHER -> {"file"}]

\* Every entry but the top ones lies in a directory of the tree
ParentClosed(t) ==
    \A p \in DOMAIN t :
        Len(p) > 1 => LET parent == SubSeq(p, 1, Len(p) - 1)
                      IN  parent \in DOMAIN t /\ t[parent] = "dir"

Trees ==
    UNION {{t \in [S -> {"file", "dir", "other"}] :
                /\ \A p \in S : t[p] \in CandidateKinds[p]
                /\ ParentClosed(t)} :
           S \in {X \in SUBSET DOMAIN CandidateKinds : Cardinality(X) <= MaxEntries}}

\* "./d/", "weird.txt", "d/a.c" and "nope"
ArgStrings ==
    {<<".", "/", "d", "/">>, Name_w_txt, <<"d", "/">> \o Name_a_c,
     <<"n", "o", "p", "e">>}

ArgLists == UNION {[1..n -> ArgStrings] : n \in 1..MaxArgs}

\* "<lead>clang-format version <a><s1><b><s2><c>\n"
VersionText(lead, a, s1, b, s2, c) ==
    lead \o Phrase \o IntToStr(a) \o <<s1>> \o IntToStr(b) \o <<s2>> \o IntToStr(c)
    \o <<"\n">>

Ubuntu == <<"U", "b", "u", "n", "t", "u", " ">>

\* Outputs without three numbers after the phrase, or without the phrase
Malformed ==
    {<<>>,
     Phrase \o <<"\n">>,
     Phrase \o <<"1", "3", "\n">>,
     Phrase \o <<"1", "3", ".", "0", "\n">>,
     Phrase \o <<"1", "3", "\n", "0", ".", "1", "\n">>,
     Phrase \o <<"1", "2", "3", "4", "5", "\n">>,
     <<"v", "e", "r", "s", "i", "o", "n", " ", "1", "3", ".", "0", ".", "1", "\n">>}

VersionOutputs ==
    {VersionText(lead, a, sep[1], b, sep[2], c) :
        lead \in {<<>>, Ubuntu}, a \in 12..MaxMajor, b \in {0, 9}, c \in {0, 1, 9},
        sep \in {".", "x"} \X {".", "x"}}
    \cup Malformed

BasicOutputs == {VersionText(<<>>, 13, ".", 0, ".", 1)}

BasicArgLists == {<< <<".", "/", "d", "/">>, <<"n", "o", "p", "e">> >>}

BasicTrees == {t \in Trees : DOMAIN t = {<<Name_d>>, <<Name_d, Name_a_c>>}}

----------------------------------------------------------------------------
(* Specifications *)

\* main() is entered with the given arguments, tool and tree
Start(out, argl, tree) ==
    /\ CLANG_FORMAT_VER_REQ = Version(13, 0, 1)
    /\ tool_stdout = out
    /\ fs = tree
    /\ args_path = argl
    /\ pc = "start"
    /\ clang_format_ver = <<>>
    /\ search = NoMatch
    /\ version = NoVersion
    /\ arg_idx = 0
    /\ globbed_files = <<>>
    /\ clang_format_cmd = <<>>
    /\ calls = <<>>
    /\ printed = <<>>
    /\ returned = FALSE
    /\ retval = 0
    /\ raised = ""
    /\ lhs = NoVersion
    /\ rhs = NoVersion
    /\ lt = FALSE

\* Either the tool's output or the arguments and the tree range widely
Init ==
    \/ \E out \in VersionOutputs, argl \in BasicArgLists, tree \in BasicTrees :
          Start(out, argl, tree)
    \/ \E out \in BasicOutputs, argl \in ArgLists, tree \in Trees :
          Start(out, argl, tree)

Next ==
    \/ RunVersionQuery
    \/ ParseVersion
    \/ CheckVersion
    \/ DiscoverArg
    \/ BuildCommand
    \/ RunFormat

Spec == Init /\ [][Next]_vars

\* Small components, and the major version required
Components == (0..MaxComp) \cup {13}

InitOrder ==
    /\ CLANG_FORMAT_VER_REQ = Version(13, 0, 1)
    /\ tool_stdout = <<>>
    /\ fs = <<>>
    /\ args_path = <<>>
    /\ pc = "compare"
    /\ clang_format_ver = <<>>
    /\ search = NoMatch
    /\ version = NoVersion
    /\ arg_idx = 0
    /\ globbed_files = <<>>
    /\ clang_format_cmd = <<>>
    /\ calls = <<>>
    /\ printed = <<>>
    /\ returned = FALSE
    /\ retval = 0
    /\ raised = ""
    /\ \E a \in Components, b \in Components, c \in Components :
          lhs = Version(a, b, c)
    /\ \E d \in Components, e \in Components, f \in Components :
          rhs = Version(d, e, f)
    /\ lt = FALSE

NextOrder == CompareVersions

SpecOrder == InitOrder /\ [][NextOrder]_vars

----------------------------------------------------------------------------
(* Vocabulary of the properties *)

Terminated == pc \in {"done", "crashed"}

IsVersionCall(c) == c.argv = <<ClangFormat, FlagVersion>>

IsFormatCall(c) ==
    /\ Len(c.argv) >= 3
    /\ SubSeq(c.argv, 1, 3) = <<ClangFormat, FlagInPlace, FlagVerbose>>

VersionCalls == Cardinality({n \in DOMAIN calls : IsVersionCall(calls[n])})

FormatCalls == Cardinality({n \in DOMAIN calls : IsFormatCall(calls[n])})

FormatExitedZero ==
    \E n \in DOMAIN calls : IsFormatCall(calls[n]) /\ calls[n].outcome = "ok"

VersionQueryFailed == Len(calls) >= 1 /\ calls[1].outcome # "ok"

DiscoveryStarted == arg_idx >= 1

DiscoveryFinished == arg_idx > Len(args_path)

Parsed == version # NoVersion

Triple(v) == <<v.major, v.minor, v.patch>>

Required == <<13, 0, 1>>

\* Lexicographic order of triples, written out
LexLess(a, b) ==
    \/ a[1] < b[1]
    \/ a[1] = b[1] /\ a[2] < b[2]
    \/ a[1] = b[1] /\ a[2] = b[2] /\ a[3] < b[3]

Accepted == Parsed /\ ~LexLess(Triple(version), Required)

Printed(msg) == \E n \in DOMAIN printed : printed[n].msg = msg

Count(seq, x) == Cardinality({n \in DOMAIN seq : seq[n] = x})

----------------------------------------------------------------------------
(* Properties *)

\* C1: a parsed version lexicographically below 13.0.1 (12.9.9, say) makes the
\* run return -1, and neither file discovery nor the formatting invocation
\* happens in that run.
C1_TooOldIsRejected ==
    (Parsed /\ LexLess(Triple(version), Required)) =>
        /\ ~DiscoveryStarted
        /\ FormatCalls = 0
        /\ pc # "parsed" => (pc = "done" /\ returned /\ retval = -1)

C1_Witness ==
    /\ pc = "done"
    /\ version = Version(12, 9, 9)
    /\ returned /\ retval = -1
    /\ Printed("ERROR too old")
    /\ Len(calls) = 1

\* C2: when the version query cannot be started or exits non-zero, the run
\* returns -1 and does no file discovery and no formatting invocation.
C2_QueryFailureReturnsMinusOne ==
    VersionQueryFailed =>
        /\ returned /\ retval = -1
        /\ ~DiscoveryStarted
        /\ FormatCalls = 0

\* C3: every run that passes the version check makes exactly one formatting
\* invocation, and its arguments are the binary, -i, --verbose and then one
\* argument per discovered file, the file's resolved path, in discovery order.
C3_OneArgumentPerFile ==
    /\ (Terminated /\ Accepted) => FormatCalls = 1
    /\ \A n \in DOMAIN calls :
          IsFormatCall(calls[n]) =>
              calls[n].argv = <<ClangFormat, FlagInPlace, FlagVerbose>>
                              \o ResolvedStrs(globbed_files)

\* The versions a text spells as "clang-format version <a>.<b>.<c>", with dots
DottedVersions(text) ==
    LET R == 1..Len(text)
    IN  {Version(ParseInt(SubSeq(text, g[1] + Len(Phrase), g[2])),
                 ParseInt(SubSeq(text, g[2] + 2, g[3])),
                 ParseInt(SubSeq(text, g[3] + 2, g[4]))) :
            g \in {h \in R \X R \X R \X R :
                     /\ PhraseAt(text, h[1])
                     /\ DigitRun(text, h[1] + Len(Phrase), h[2])
                     /\ h[2] + 1 <= Len(text) /\ text[h[2] + 1] = "."
                     /\ DigitRun(text, h[2] + 2, h[3])
                     /\ h[3] + 1 <= Len(text) /\ text[h[3] + 1] = "."
                     /\ DigitRun(text, h[3] + 2, h[4])
                     /\ ~DigitRun(text, h[3] + 2, h[4] + 1)}}

ParseDone == search.found \/ raised \in {"AssertionError", "AttributeError"}

\* C4: the output is accepted only if it holds the phrase followed by three
\* integers separated by dots, and the Version is those integers; any other
\* output aborts the run before file discovery and formatting.
C4_OnlyDottedVersionsAccepted ==
    ParseDone =>
        /\ search.found => version \in DottedVersions(clang_format_ver)
        /\ DottedVersions(clang_format_ver) = {} =>
              /\ pc = "crashed"
              /\ ~DiscoveryStarted
              /\ FormatCalls = 0

\* r lists the set S in ascending path order
SortedListing(r, S) ==
    /\ Len(r) = Cardinality(S)
    /\ {r[n] : n \in DOMAIN r} = S
    /\ \A m \in DOMAIN r, n \in DOMAIN r : m < n => PathLT(r[m], r[n])

\* The regular files at any depth below dir whose name ends with the suffix
FilesBelow(dir, suffix) ==
    {q \in DOMAIN fs : q \in Glob(fs, dir, suffix) /\ fs[q] = "file"}

\* The entries of any kind at any depth below dir whose name ends with the suffix
EntriesBelow(dir, suffix) ==
    {q \in DOMAIN fs :
        /\ Len(q) > Len(dir)
        /\ \A n \in 1..Len(dir) : q[n] = dir[n]
        /\ Len(q[Len(q)]) >= 2
        /\ q[Len(q)][Len(q[Len(q)]) - 1] = "."
        /\ q[Len(q)][Len(q[Len(q)])] = suffix}

\* What the step of a directory argument appends: the listing of cs, then of hs
AppendsListings(cs, hs) ==
    LET old == Len(globbed_files)
        now == Len(globbed_files')
    IN  /\ now = old + Cardinality(cs) + Cardinality(hs)
        /\ SubSeq(globbed_files', 1, old) = globbed_files
        /\ SortedListing(SubSeq(globbed_files', old + 1, old + Cardinality(cs)), cs)
        /\ SortedListing(SubSeq(globbed_files', old + Cardinality(cs) + 1, now), hs)

AtDirectoryArgument ==
    /\ pc = "discover"
    /\ arg_idx <= Len(args_path)
    /\ KindOf(fs, PathOf(args_path[arg_idx])) = "dir"

\* C5: a directory argument contributes, in argument order, the files below it
\* ending in .c sorted by path, then the files below it ending in .h sorted by
\* path, and nothing else.
C5_DirectoryContributesFiles ==
    [][AtDirectoryArgument =>
          AppendsListings(FilesBelow(PathOf(args_path[arg_idx]), <<".", "c">>),
                          FilesBelow(PathOf(args_path[arg_idx]), <<".", "h">>))]_vars

\* What the code does for a directory argument: entries of any kind are listed.
DirectoryContributesEntries ==
    [][AtDirectoryArgument =>
          AppendsListings(EntriesBelow(PathOf(args_path[arg_idx]), "c"),
                          EntriesBelow(PathOf(args_path[arg_idx]), "h"))]_vars

\* The arguments that name neither a regular file nor a directory
IgnoredArgs ==
    {n \in DOMAIN args_path : KindOf(fs, PathOf(args_path[n])) \in {"none", "other"}}

\* How often path p is due in the result: once per argument naming the file,
\* once per directory argument whose expansion holds it
Due(p) ==
    Cardinality({n \in DOMAIN args_path :
                    LET a == PathOf(args_path[n])
                    IN  \/ KindOf(fs, a) = "file" /\ a = p
                        \/ KindOf(fs, a) = "dir"
                           /\ p \in EntriesBelow(a, "c") \cup EntriesBelow(a, "h")})

C6_Step ==
    (pc = "discover" /\ arg_idx <= Len(args_path)) =>
        LET path == PathOf(args_path[arg_idx])
            kind == KindOf(fs, path)
        IN  /\ kind \in {"none", "other"} =>
                  /\ globbed_files' = globbed_files
                  /\ printed' = Append(printed, Line("WARN", PathStr(path)))
                  /\ pc' = "discover" /\ arg_idx' = arg_idx + 1
                  /\ raised' = "" /\ ~returned'
            /\ kind = "file" =>
                  /\ globbed_files' = Append(globbed_files, path)
                  /\ printed' = printed
                  /\ pc' = "discover" /\ arg_idx' = arg_idx + 1

C6_End ==
    /\ (DiscoveryStarted /\ Terminated) => (DiscoveryFinished /\ FormatCalls = 1)
    /\ (DiscoveryStarted /\ ~Terminated) => ENABLED Next
    /\ DiscoveryFinished =>
          /\ Cardinality({n \in DOMAIN printed : printed[n].msg = "WARN"})
                = Cardinality(IgnoredArgs)
          /\ \A n \in DOMAIN args_path :
                LET p == PathOf(args_path[n])
                IN  KindOf(fs, p) = "file" => Count(globbed_files, p) = Due(p)

\* C6: an argument that does not exist, or is neither a regular file nor a
\* directory, gives one warning and no file, and the run goes on to the other
\* arguments and to the formatting invocation; a regular file argument is
\* appended once per occurrence whatever its extension, without deduplication
\* against directory expansions.
C6_InvalidSkippedFilesKept == []C6_End /\ [][C6_Step]_vars

C6_Witness ==
    /\ pc = "done"
    /\ args_path = << <<"n", "o", "p", "e">>, Name_w_txt >>
    /\ KindOf(fs, <<Name_w_txt>>) = "file"
    /\ globbed_files = << <<Name_w_txt>> >>
    /\ Cardinality({n \in DOMAIN printed : printed[n].msg = "WARN"}) = 1
    /\ FormatCalls = 1

\* C7: the run returns 0 exactly when the formatting invocation ran and exited
\* with status zero; every other way the run ends (version query failure,
\* version too old, formatting failure) returns -1.  Aborts on an unparsable
\* version output are left aside.
C7_ZeroIffFormatSucceeded ==
    (Terminated /\ raised \notin {"AssertionError", "AttributeError"}) =>
        /\ returned
        /\ retval = IF FormatExitedZero THEN 0 ELSE -1

\* C8: for a parsed version not below 13.0.1 the "newer than tested" note is
\* printed exactly when the major component exceeds 13, and either way the run
\* goes on to file discovery and the formatting invocation.
C8_WarnIffNewerMajor ==
    (Accepted /\ pc # "parsed") =>
        /\ Printed("NOTE") <=> version.major > 13
        /\ Printed("Using")
        /\ DiscoveryStarted
        /\ Terminated => FormatCalls = 1
        /\ ~Terminated => ENABLED Next

C8_Witness ==
    /\ pc = "done"
    /\ version = Version(14, 0, 0)
    /\ Printed("NOTE")
    /\ FormatCalls = 1
    /\ returned /\ retval = 0

\* C9: Version(a,b,c) < Version(d,e,f) exactly when (a,b,c) is
\* lexicographically below (d,e,f): major first, then minor, then patch.
C9_LessThanIsLexicographic ==
    pc = "compared" => (lt <=> LexLess(Triple(lhs), Triple(rhs)))

C9_Witness ==
    /\ pc = "compared"
    /\ lhs = Version(0, 3, 3)
    /\ rhs = Version(13, 0, 1)
    /\ lt

\* Stage of the run: Start 0, VersionChecked 1, FilesDiscovered 2,
\* Formatted or Failed 3
Stage(at) ==
    CASE at \in {"start", "queried", "parsed"} -> 0
      [] at = "discover" -> 1
      [] at = "built" -> 2
      [] at \in {"done", "crashed"} -> 3

Failed == raised # "" \/ (returned /\ retval # 0)

C10_State ==
    /\ VersionCalls <= 1
    /\ FormatCalls <= 1
    /\ Len(calls) = VersionCalls + FormatCalls
    /\ DiscoveryStarted =>
          (Accepted /\ VersionCalls = 1 /\ IsVersionCall(calls[1])
           /\ calls[1].outcome = "ok")
    /\ FormatCalls = 1 =>
          (Accepted /\ DiscoveryFinished /\ IsVersionCall(calls[1])
           /\ IsFormatCall(calls[2]))
    /\ Failed => Terminated

C10_Step ==
    /\ ~Terminated
    /\ Stage(pc') >= Stage(pc)
    /\ Stage(pc') <= Stage(pc) + 1 \/ Terminated'
    /\ CLANG_FORMAT_VER_REQ' = CLANG_FORMAT_VER_REQ
    /\ (Parsed => version' = version)
    /\ (DiscoveryFinished => globbed_files' = globbed_files)

\* C10: a run goes Start -> VersionChecked -> FilesDiscovered -> Formatted or
\* Failed and never back; the version query is made at most once and before
\* any discovery, the formatting invocation at most once and only after the
\* version was accepted and discovery finished; the required version and the
\* finished file list do not change, and a failure ends the run.
C10_LinearStages == []C10_State /\ [][C10_Step]_vars

C10_Witness ==
    /\ pc = "done"
    /\ returned /\ retval = 0
    /\ Len(calls) = 2
    /\ Len(globbed_files) >= 2
    /\ Len(args_path) = 2

====
